---- MODULE Spec2Model ----
(***************************************************************************)
(* Task lifecycle of the financial document analyzer: the Result Store     *)
(* (database.py), the API Gateway handlers (main.py) and the queue worker  *)
(* jobs (queue_worker.py).                                                 *)
(*                                                                         *)
(* Optional values (Python None / SQL NULL) are sequences of length <= 1:  *)
(* None is << >> and a present value v is << v >>.  Text that the code     *)
(* inspects character by character (file names, queries) is a sequence of  *)
(* one-character strings; opaque text is a TLA+ string.                    *)
(***************************************************************************)
EXTENDS Integers, Sequences, FiniteSets, TLC

VARIABLES
    store,      \* table analysis_results: rows in insertion order
    fs,         \* paths of the uploaded files present under data/
    jobs,       \* broker + result backend: celery task id -> job
    h,          \* the /analyze handler running in the API event loop
    cleanup,    \* background cleanup tasks of the API process: path -> state
    resp,       \* the last HTTP response sent by the API Gateway
    ret,        \* the outcome of the last direct call of a function
    now,        \* datetime.utcnow()
    nreq,       \* POST /analyze requests received so far
    ncalls,     \* direct calls made so far
    nextUuid,   \* uuid4(): the next fresh identifier
    session     \* transaction state of the Session of the DatabaseManager
                \* that is called directly

vars == <<store, fs, jobs, h, cleanup, resp, ret, now, nreq, ncalls, nextUuid, session>>

(***************************************************************************)
(* Bounds                                                                  *)
(***************************************************************************)
MaxReq == 2         \* POST /analyze requests
MaxClock == 1       \* clock readings 0..MaxClock
MaxCalls == 3       \* direct calls in one run
NumWorkers == 1     \* worker processes pulling from the broker

None == << >>
Some(v) == << v >>

Statuses == {"PENDING", "IN_PROGRESS", "COMPLETED", "FAILED"}

\* str(response) of a crew run, and str(e) of a fault raised by it
Analyses == {"RISK: LOW"}
Faults == {"analysis fault"}

\* file names a client may upload
Filenames == { <<"R", ".", "P", "d", "f">>,
               <<"r", ".", "t", "x", "t">>,
               <<"p", "d", "f">> }

\* "Analyze this financial document for investment insights"
DefaultQuery == <<"A", "n", "a", "l", "y", "z", "e">>

\* queries a client may send: empty, blank, and that text padded with blanks
Queries == { << >>, <<" ">>, <<" ">> \o DefaultQuery \o <<" ">> }

\* (limit, offset) pairs passed to GET /results and to get_analysis_results
Pages == { <<1, 0>>, <<1, 1>>, <<2, 0>> }

\* task ids passed to direct DatabaseManager calls ("final-test-123", ...)
DirectIds == {"t1", "t2"}

(***************************************************************************)
(* str.lower(), str.endswith(), str.strip()                                *)
(***************************************************************************)
LowerChar(c) ==
    CASE c = "R" -> "r"
      [] c = "P" -> "p"
      [] c = "D" -> "d"
      [] c = "F" -> "f"
      [] c = "T" -> "t"
      [] c = "X" -> "x"
      [] OTHER -> c

Lower(s) == [i \in 1 .. Len(s) |-> LowerChar(s[i])]

EndsWith(s, suffix) ==
    /\ Len(s) >= Len(suffix)
    /\ SubSeq(s, Len(s) - Len(suffix) + 1, Len(s)) = suffix

IsSpace(c) == c = " "

RECURSIVE LStrip(_)
LStrip(s) ==
    IF s # << >> /\ IsSpace(Head(s)) THEN LStrip(Tail(s)) ELSE s

RECURSIVE RStrip(_)
RStrip(s) ==
    IF s # << >> /\ IsSpace(s[Len(s)]) THEN RStrip(SubSeq(s, 1, Len(s) - 1)) ELSE s

Strip(s) == RStrip(LStrip(s))

\* the extension compared without its dot
IsPdfWithoutDot(filename) == EndsWith(Lower(filename), <<"p", "d", "f">>)

\* main.py:79
IsPdf(filename) == EndsWith(Lower(filename), <<".", "p", "d", "f">>)

\* main.py:95-96
ValidateQuery(query) ==
    IF query = << >> \/ Strip(query) = << >> THEN DefaultQuery ELSE query

\* main.py:83
FilePath(file_id) == <<"data/financial_document_", file_id, ".pdf">>

(***************************************************************************)
(* Result Store: database.py                                               *)
(***************************************************************************)
\* AnalysisResult(...) built without the status passed: the column default
NewRowDefaultStatus(task_id, file_name, file_path, query, status, t) ==
    [ task_id |-> task_id,
      file_name |-> file_name,
      file_path |-> file_path,
      query |-> query,
      analysis_result |-> None,
      status |-> "PENDING",
      created_at |-> t,
      completed_at |-> None,
      error_message |-> None,
      revenue |-> None,
      profit_margin |-> None,
      debt_ratio |-> None,
      pe_ratio |-> None,
      investment_recommendation |-> None,
      risk_level |-> None ]

\* AnalysisResult(...) as inserted by create_analysis_result: the columns
\* not passed take their defaults (created_at = utcnow, the rest NULL).
\* The surrogate key `id` is never read by any operation and is left out.
NewRow(task_id, file_name, file_path, query, status, t) ==
    [ task_id |-> task_id,
      file_name |-> file_name,
      file_path |-> file_path,
      query |-> query,
      analysis_result |-> None,
      status |-> status,
      created_at |-> t,
      completed_at |-> None,
      error_message |-> None,
      revenue |-> None,
      profit_margin |-> None,
      debt_ratio |-> None,
      pe_ratio |-> None,
      investment_recommendation |-> None,
      risk_level |-> None ]

\* query(AnalysisResult).filter(task_id == ...).first(): position or 0
Find(s, task_id) ==
    IF \E i \in 1 .. Len(s) : s[i].task_id = task_id
    THEN CHOOSE i \in 1 .. Len(s) :
            /\ s[i].task_id = task_id
            /\ \A j \in 1 .. (i - 1) : s[j].task_id # task_id
    ELSE 0

Has(s, task_id) == Find(s, task_id) # 0

\* DatabaseManager.get_analysis_result
GetAnalysisResult(s, task_id) ==
    IF Has(s, task_id) THEN Some(s[Find(s, task_id)]) ELSE None

\* DatabaseManager.create_analysis_result on a task_id not yet stored
CreateAnalysisResult(s, task_id, file_name, file_path, query, status, t) ==
    Append(s, NewRow(task_id, file_name, file_path, query, status, t))

\* update_analysis_result writing the analysis text to the wrong column
UpdatedRowWrongColumn(row, analysis_result, status, error_message, kw, t) ==
    LET r1 == IF analysis_result # None
              THEN [row EXCEPT !.error_message = analysis_result] ELSE row
        r2 == IF status # None THEN [r1 EXCEPT !.status = status[1]] ELSE r1
        r3 == IF error_message # None
              THEN [r2 EXCEPT !.error_message = error_message] ELSE r2
        r4 == IF status = Some("COMPLETED")
              THEN [r3 EXCEPT !.completed_at = Some(t)] ELSE r3
    IN  [f \in DOMAIN r4 |-> IF f \in DOMAIN kw THEN kw[f] ELSE r4[f]]

\* the assignments of update_analysis_result to a row that was found;
\* analysis_result, status, error_message are optional (None = not passed),
\* kw is the **financial_metrics dictionary
UpdatedRow(row, analysis_result, status, error_message, kw, t) ==
    LET r1 == IF analysis_result # None
              THEN [row EXCEPT !.analysis_result = analysis_result] ELSE row
        r2 == IF status # None THEN [r1 EXCEPT !.status = status[1]] ELSE r1
        r3 == IF error_message # None
              THEN [r2 EXCEPT !.error_message = error_message] ELSE r2
        r4 == IF status = Some("COMPLETED")
              THEN [r3 EXCEPT !.completed_at = Some(t)] ELSE r3
    IN  [f \in DOMAIN r4 |-> IF f \in DOMAIN kw THEN kw[f] ELSE r4[f]]

\* DatabaseManager.update_analysis_result: the table afterwards
UpdateAnalysisResult(s, task_id, analysis_result, status, error_message, kw, t) ==
    IF Has(s, task_id)
    THEN [s EXCEPT ![Find(s, task_id)] =
              UpdatedRow(@, analysis_result, status, error_message, kw, t)]
    ELSE s

\* a delete that takes the rows inserted after the record with it
DeleteRowAndLater(s, i) ==
    SubSeq(s, 1, i - 1)

\* db.delete(result); db.commit()
DeleteRow(s, i) ==
    SubSeq(s, 1, i - 1) \o SubSeq(s, i + 1, Len(s))

\* the query without .offset(offset): every page starts at the first row
GetAnalysisResultsNoOffset(s, limit, offset) ==
    SubSeq(s, 1, IF limit < Len(s) THEN limit ELSE Len(s))

\* query(AnalysisResult).offset(offset).limit(limit).all()
\* SQLite returns the rows of this unordered query in rowid order, the
\* order of insertion
GetAnalysisResults(s, limit, offset) ==
    SubSeq(s, offset + 1, IF offset + limit < Len(s) THEN offset + limit ELSE Len(s))

\* datetime.isoformat()
IsoFormat(t) == <<"iso", t>>

OptIso(opt) == IF opt # None THEN Some(IsoFormat(opt[1])) ELSE None

\* AnalysisResult.to_dict (file_path is not part of it)
ToDict(row) ==
    [ task_id |-> row.task_id,
      file_name |-> row.file_name,
      query |-> row.query,
      analysis_result |-> row.analysis_result,
      status |-> row.status,
      created_at |-> Some(IsoFormat(row.created_at)),
      completed_at |-> OptIso(row.completed_at),
      error_message |-> row.error_message,
      revenue |-> row.revenue,
      profit_margin |-> row.profit_margin,
      debt_ratio |-> row.debt_ratio,
      pe_ratio |-> row.pe_ratio,
      investment_recommendation |-> row.investment_recommendation,
      risk_level |-> row.risk_level ]

(***************************************************************************)
(* Initial state: empty table, empty data directory, empty broker          *)
(***************************************************************************)
Idle == [pc |-> "idle"]

NoResponse == [op |-> "none", about |-> << >>, code |-> 0, body |-> [none |-> TRUE]]

\* the outcome of a direct call: the function, its arguments, the exception
\* it raised if any, and the value it returned otherwise
Returned(op, args, value) ==
    [op |-> op, args |-> args, raised |-> None, value |-> value]

Raised(op, args, exc) ==
    [op |-> op, args |-> args, raised |-> Some(exc), value |-> None]

NoCall == Returned("none", << >>, None)

Init ==
    /\ store = << >>
    /\ fs = {}
    /\ jobs = << >>
    /\ h = Idle
    /\ cleanup = << >>
    /\ resp = NoResponse
    /\ ret = NoCall
    /\ now = 0
    /\ nreq = 0
    /\ ncalls = 0
    /\ nextUuid = 1
    /\ session = "active"

\* time passes between two readings of datetime.utcnow()
Tick ==
    /\ now < MaxClock
    /\ now' = now + 1
    /\ UNCHANGED <<store, fs, jobs, h, cleanup, resp, ret, nreq, ncalls, nextUuid, session>>

(***************************************************************************)
(* Direct use of DatabaseManager, as final_test.py does                    *)
(***************************************************************************)
\* keyword arguments a caller may pass as **financial_metrics
KwargsSet ==
    { << >>,
      [risk_level |-> Some("LOW"), query |-> <<"x">>, no_such_column |-> Some("v")],
      [risk_level |-> None] }

\* A Session whose commit() failed in its flush has rolled the database
\* transaction back and holds an inactive transaction: until rollback() or
\* close() is called on it, every further use raises PendingRollbackError.
\* No method of DatabaseManager calls rollback().
DbCreate(task_id, status) ==
    /\ ncalls < MaxCalls
    /\ ncalls' = ncalls + 1
    /\ IF session # "active"
       THEN /\ ret' = Raised("create", <<task_id, status>>, "PendingRollbackError")
            /\ UNCHANGED <<store, session>>
       ELSE IF Has(store, task_id)
       THEN \* UNIQUE constraint on task_id: commit raises IntegrityError
            /\ ret' = Raised("create", <<task_id, status>>, "IntegrityError")
            /\ store' = store
            /\ session' = "inactive"
       ELSE /\ store' = CreateAnalysisResult(store, task_id, "test.pdf", "data/test.pdf",
                                             <<"q">>, status, now)
            /\ ret' = Returned("create", <<task_id, status>>, Some(store'[Len(store')]))
            /\ session' = session
    /\ UNCHANGED <<fs, jobs, h, cleanup, resp, now, nreq, nextUuid>>

DbUpdate(task_id, analysis_result, status, error_message, kw) ==
    /\ ncalls < MaxCalls
    /\ ncalls' = ncalls + 1
    /\ IF session # "active"
       THEN /\ ret' = Raised("update", <<task_id>>, "PendingRollbackError")
            /\ store' = store
       ELSE /\ store' = UpdateAnalysisResult(store, task_id, analysis_result, status,
                                             error_message, kw, now)
            /\ ret' = Returned("update", <<task_id>>, GetAnalysisResult(store', task_id))
    /\ UNCHANGED <<fs, jobs, h, cleanup, resp, now, nreq, nextUuid, session>>

DbGet(task_id) ==
    /\ ncalls < MaxCalls
    /\ ncalls' = ncalls + 1
    /\ ret' = IF session # "active"
              THEN Raised("get", <<task_id>>, "PendingRollbackError")
              ELSE Returned("get", <<task_id>>, GetAnalysisResult(store, task_id))
    /\ UNCHANGED <<store, fs, jobs, h, cleanup, resp, now, nreq, nextUuid, session>>

DbList(limit, offset) ==
    /\ ncalls < MaxCalls
    /\ ncalls' = ncalls + 1
    /\ ret' = IF session # "active"
              THEN Raised("list", <<limit, offset>>, "PendingRollbackError")
              ELSE Returned("list", <<limit, offset>>,
                            GetAnalysisResults(store, limit, offset))
    /\ UNCHANGED <<store, fs, jobs, h, cleanup, resp, now, nreq, nextUuid, session>>

\* DatabaseManager.close(): Session.close() ends the transaction, the
\* Session begins a new one on its next use
DbClose ==
    /\ ncalls < MaxCalls
    /\ ncalls' = ncalls + 1
    /\ session' = "active"
    /\ ret' = Returned("close", << >>, None)
    /\ UNCHANGED <<store, fs, jobs, h, cleanup, resp, now, nreq, nextUuid>>

StoreNext ==
    \/ \E t \in DirectIds, st \in Statuses : DbCreate(t, st)
    \/ \E t \in DirectIds, a \in {None, Some("A")},
          st \in {None} \cup {Some(x) : x \in Statuses},
          e \in {None, Some("E")}, kw \in KwargsSet :
            DbUpdate(t, a, st, e, kw)
    \/ \E t \in DirectIds : DbGet(t)
    \/ \E pg \in Pages : DbList(pg[1], pg[2])
    \/ DbClose
    \/ Tick

StoreSpec == Init /\ [][StoreNext]_vars

(***************************************************************************)
(* API Gateway: main.py.  The handlers are coroutines of one event loop    *)
(* and make only blocking calls after the upload has been read, so a       *)
(* handler runs to its response without another handler in between; the    *)
(* worker process and the background cleanup thread run concurrently.      *)
(***************************************************************************)
\* a response: the endpoint, its path and query parameters, the status
\* code and the JSON body
Http(op, code, body) == [op |-> op, about |-> << >>, code |-> code, body |-> body]

About(response, params) == [response EXCEPT !.about = params]

\* an exception other than HTTPException, with its str()
Exception(text) == [exc |-> "Exception", text |-> text]

\* HTTPException(status_code, detail) as a raised exception
HTTPException(code, detail) ==
    [exc |-> "HTTPException", status_code |-> code, detail |-> detail]

\* POST /analyze, lines 78-98: validation, upload written to data/
Receive(filename, query, use_queue) ==
    /\ h.pc = "idle"
    /\ nreq < MaxReq
    /\ nreq' = nreq + 1
    /\ IF ~IsPdf(filename)
       THEN /\ resp' = Http("analyze", 400, [detail |-> <<"Only PDF files are supported">>])
            /\ UNCHANGED <<fs, h, nextUuid>>
       ELSE /\ fs' = fs \cup {FilePath(nextUuid)}
            /\ h' = [ pc |-> IF use_queue THEN "delay" ELSE "run_crew",
                      filename |-> filename,
                      query |-> ValidateQuery(query),
                      file_id |-> nextUuid,
                      file_path |-> FilePath(nextUuid),
                      task_id |-> None,
                      response |-> None,
                      error |-> None ]
            /\ nextUuid' = nextUuid + 1
            /\ resp' = resp
    /\ UNCHANGED <<store, jobs, cleanup, ret, now, ncalls, session>>

\* line 103: analyze_financial_document_task.delay(query.strip(), file_path)
Delay ==
    /\ h.pc = "delay"
    /\ jobs' = jobs @@ (nextUuid :> [ query |-> Strip(h.query),
                                      file_path |-> h.file_path,
                                      state |-> "PENDING",
                                      meta |-> None,
                                      saw_file |-> None,
                                      attempts |-> 0,
                                      result |-> None ])
    /\ h' = [h EXCEPT !.pc = "create_pending", !.task_id = Some(nextUuid)]
    /\ nextUuid' = nextUuid + 1
    /\ UNCHANGED <<store, fs, cleanup, resp, ret, now, nreq, ncalls, session>>

\* line 103 when the broker cannot be reached: delay raises
DelayRaises(e) ==
    /\ h.pc = "delay"
    /\ h' = [h EXCEPT !.pc = "except", !.error = Some(e)]
    /\ UNCHANGED <<store, fs, jobs, cleanup, resp, ret, now, nreq, ncalls, nextUuid, session>>

\* lines 106-112: the PENDING record of the queued path
CreatePending ==
    /\ h.pc = "create_pending"
    /\ store' = CreateAnalysisResult(store, h.task_id[1], h.filename, h.file_path,
                                     Strip(h.query), "PENDING", now)
    /\ h' = [h EXCEPT !.pc = "respond_queued"]
    /\ UNCHANGED <<fs, jobs, cleanup, resp, ret, now, nreq, ncalls, nextUuid, session>>

\* lines 115-124: cleanup scheduled, response returned
RespondQueued ==
    /\ h.pc = "respond_queued"
    /\ cleanup' = cleanup @@ (h.file_path :> "scheduled")
    /\ resp' = Http("analyze", 200,
                    [ status |-> "queued",
                      task_id |-> h.task_id[1],
                      query |-> h.query,
                      file_processed |-> h.filename,
                      file_id |-> h.file_id ])
    /\ h' = Idle
    /\ UNCHANGED <<store, fs, jobs, ret, now, nreq, ncalls, nextUuid, session>>

\* line 127: run_crew returns the crew's result
RunCrew(a) ==
    /\ h.pc = "run_crew"
    /\ h' = [h EXCEPT !.pc = "create_completed", !.response = Some(a)]
    /\ UNCHANGED <<store, fs, jobs, cleanup, resp, ret, now, nreq, ncalls, nextUuid, session>>

\* line 127: run_crew raises
RunCrewRaises(e) ==
    /\ h.pc = "run_crew"
    /\ h' = [h EXCEPT !.pc = "except", !.error = Some(e)]
    /\ UNCHANGED <<store, fs, jobs, cleanup, resp, ret, now, nreq, ncalls, nextUuid, session>>

\* lines 130-136: the record of the synchronous path, task_id = uuid4()
CreateCompleted ==
    /\ h.pc = "create_completed"
    /\ store' = CreateAnalysisResult(store, nextUuid, h.filename, h.file_path,
                                     Strip(h.query), "COMPLETED", now)
    /\ h' = [h EXCEPT !.pc = "update_completed", !.task_id = Some(nextUuid)]
    /\ nextUuid' = nextUuid + 1
    /\ UNCHANGED <<fs, jobs, cleanup, resp, ret, now, nreq, ncalls, session>>

\* the COMPLETED update keyed by file_id, as the except block keys its own
UpdateCompletedByFileId ==
    /\ h.pc = "update_completed"
    /\ store' = UpdateAnalysisResult(store, h.file_id, h.response,
                                     Some("COMPLETED"), None, << >>, now)
    /\ h' = [h EXCEPT !.pc = "respond_sync"]
    /\ UNCHANGED <<fs, jobs, cleanup, resp, ret, now, nreq, ncalls, nextUuid, session>>

\* lines 139-143
UpdateCompleted ==
    /\ h.pc = "update_completed"
    /\ store' = UpdateAnalysisResult(store, h.task_id[1], h.response,
                                     Some("COMPLETED"), None, << >>, now)
    /\ h' = [h EXCEPT !.pc = "respond_sync"]
    /\ UNCHANGED <<fs, jobs, cleanup, resp, ret, now, nreq, ncalls, nextUuid, session>>

\* lines 146-155
RespondSync ==
    /\ h.pc = "respond_sync"
    /\ cleanup' = cleanup @@ (h.file_path :> "scheduled")
    /\ resp' = Http("analyze", 200,
                    [ status |-> "success",
                      query |-> h.query,
                      analysis |-> h.response[1],
                      file_processed |-> h.filename,
                      file_id |-> h.file_id,
                      task_id |-> h.task_id[1] ])
    /\ h' = Idle
    /\ UNCHANGED <<store, fs, jobs, ret, now, nreq, ncalls, nextUuid, session>>

\* lines 157-170: except Exception: the FAILED update is keyed by file_id
HandleException ==
    /\ h.pc = "except"
    /\ store' = UpdateAnalysisResult(store, h.file_id, None, Some("FAILED"),
                                     h.error, << >>, now)
    /\ resp' = Http("analyze", 500,
                    [detail |-> <<"Error processing financial document: ", Exception(h.error[1])>>])
    /\ h' = Idle
    /\ UNCHANGED <<fs, jobs, cleanup, ret, now, nreq, ncalls, nextUuid, session>>

\* the response of GET /task/{task_id}: the 404 is raised inside the try
\* block and HTTPException is an Exception, so the except clause takes it
GetTaskStatusResponse(s, task_id) ==
    LET result == GetAnalysisResult(s, task_id)
        raised == IF result = None
                  THEN Some(HTTPException(404, "Task not found")) ELSE None
    IN  IF raised # None
        THEN Http("get_task_status", 500,
                  [detail |-> <<"Error retrieving task status: ", raised[1]>>])
        ELSE Http("get_task_status", 200, ToDict(result[1]))

\* GET /task/{task_id}/result holding back the payload of PENDING records only
GetTaskResultResponsePendingOnly(s, task_id) ==
    LET result == GetAnalysisResult(s, task_id)
        raised == IF result = None
                  THEN Some(HTTPException(404, "Task not found")) ELSE None
    IN  IF raised # None
        THEN Http("get_task_result", 500,
                  [detail |-> <<"Error retrieving task result: ", raised[1]>>])
        ELSE IF result[1].status = "PENDING"
        THEN Http("get_task_result", 200,
                  [ status |-> result[1].status,
                    message |-> "Task not completed yet",
                    error |-> result[1].error_message ])
        ELSE Http("get_task_result", 200,
                  [ status |-> "success",
                    task_id |-> task_id,
                    analysis |-> result[1].analysis_result,
                    financial_metrics |->
                        [ revenue |-> result[1].revenue,
                          profit_margin |-> result[1].profit_margin,
                          debt_ratio |-> result[1].debt_ratio,
                          pe_ratio |-> result[1].pe_ratio,
                          investment_recommendation |->
                              result[1].investment_recommendation,
                          risk_level |-> result[1].risk_level ],
                    completed_at |-> OptIso(result[1].completed_at) ])

\* the response of GET /task/{task_id}/result
GetTaskResultResponse(s, task_id) ==
    LET result == GetAnalysisResult(s, task_id)
        raised == IF result = None
                  THEN Some(HTTPException(404, "Task not found")) ELSE None
    IN  IF raised # None
        THEN Http("get_task_result", 500,
                  [detail |-> <<"Error retrieving task result: ", raised[1]>>])
        ELSE IF result[1].status # "COMPLETED"
        THEN Http("get_task_result", 200,
                  [ status |-> result[1].status,
                    message |-> "Task not completed yet",
                    error |-> result[1].error_message ])
        ELSE Http("get_task_result", 200,
                  [ status |-> "success",
                    task_id |-> task_id,
                    analysis |-> result[1].analysis_result,
                    financial_metrics |->
                        [ revenue |-> result[1].revenue,
                          profit_margin |-> result[1].profit_margin,
                          debt_ratio |-> result[1].debt_ratio,
                          pe_ratio |-> result[1].pe_ratio,
                          investment_recommendation |->
                              result[1].investment_recommendation,
                          risk_level |-> result[1].risk_level ],
                    completed_at |-> OptIso(result[1].completed_at) ])

\* the response of DELETE /task/{task_id}
DeleteTaskResponse(s, task_id) ==
    LET result == GetAnalysisResult(s, task_id)
        raised == IF result = None
                  THEN Some(HTTPException(404, "Task not found")) ELSE None
    IN  IF raised # None
        THEN Http("delete_task", 500,
                  [detail |-> <<"Error deleting task: ", raised[1]>>])
        ELSE Http("delete_task", 200, [status |-> "success", task_id |-> task_id])

GetTaskStatus(task_id) ==
    /\ h.pc = "idle"
    /\ resp' = About(GetTaskStatusResponse(store, task_id), <<task_id>>)
    /\ UNCHANGED <<store, fs, jobs, h, cleanup, ret, now, nreq, ncalls, nextUuid, session>>

GetTaskResult(task_id) ==
    /\ h.pc = "idle"
    /\ resp' = About(GetTaskResultResponse(store, task_id), <<task_id>>)
    /\ UNCHANGED <<store, fs, jobs, h, cleanup, ret, now, nreq, ncalls, nextUuid, session>>

DeleteTask(task_id) ==
    /\ h.pc = "idle"
    /\ resp' = About(DeleteTaskResponse(store, task_id), <<task_id>>)
    /\ store' = IF Has(store, task_id)
                THEN DeleteRow(store, Find(store, task_id)) ELSE store
    /\ UNCHANGED <<fs, jobs, h, cleanup, ret, now, nreq, ncalls, nextUuid, session>>

\* GET /results
GetResults(limit, offset) ==
    /\ h.pc = "idle"
    /\ resp' = LET results == GetAnalysisResults(store, limit, offset)
               IN  About(Http("get_analysis_results", 200,
                              [ results |-> [i \in 1 .. Len(results) |-> ToDict(results[i])],
                                count |-> Len(results),
                                limit |-> limit,
                                offset |-> offset ]),
                         <<limit, offset>>)
    /\ UNCHANGED <<store, fs, jobs, h, cleanup, ret, now, nreq, ncalls, nextUuid, session>>

(***************************************************************************)
(* Queue worker: queue_worker.py                                           *)
(***************************************************************************)
InProgress == {t \in DOMAIN jobs : jobs[t].state = "PROGRESS"}

\* lines 45-67: a free worker takes the job from the broker and starts it
\* at once; update_state(state='PROGRESS')
WorkerStart(t) ==
    /\ t \in DOMAIN jobs
    /\ jobs[t].state = "PENDING"
    /\ Cardinality(InProgress) < NumWorkers
    /\ jobs' = [jobs EXCEPT ![t].state = "PROGRESS",
                            ![t].attempts = @ + 1,
                            ![t].meta = Some([status |-> "Running financial analysis..."])]
    /\ UNCHANGED <<store, fs, h, cleanup, resp, ret, now, nreq, ncalls, nextUuid, session>>

\* lines 70-81: the crew reads the file and returns; the job returns its dict
WorkerSucceeds(t, a) ==
    /\ t \in DOMAIN jobs
    /\ jobs[t].state = "PROGRESS"
    /\ jobs' = [jobs EXCEPT ![t].state = "SUCCESS",
                            ![t].meta = Some([status |-> "Finalizing results..."]),
                            ![t].saw_file = Some(jobs[t].file_path \in fs),
                            ![t].result = Some([ status |-> "SUCCESS",
                                                 query |-> jobs[t].query,
                                                 file_path |-> jobs[t].file_path,
                                                 analysis |-> a,
                                                 task_id |-> t ])]
    /\ UNCHANGED <<store, fs, h, cleanup, resp, ret, now, nreq, ncalls, nextUuid, session>>

\* an except block that returns an error dict instead of raising, as
\* cleanup_file_task does: the queue records the job as succeeded
WorkerFailsSwallowed(t, e) ==
    /\ t \in DOMAIN jobs
    /\ jobs[t].state = "PROGRESS"
    /\ jobs' = [jobs EXCEPT ![t].state = "SUCCESS",
                            ![t].saw_file = Some(jobs[t].file_path \in fs),
                            ![t].result = Some([status |-> "ERROR", message |-> e])]
    /\ UNCHANGED <<store, fs, h, cleanup, resp, ret, now, nreq, ncalls, nextUuid, session>>

\* lines 70, 83-89: the crew raises; update_state(state='FAILURE'); raise e
WorkerFails(t, e) ==
    /\ t \in DOMAIN jobs
    /\ jobs[t].state = "PROGRESS"
    /\ jobs' = [jobs EXCEPT ![t].state = "FAILURE",
                            ![t].meta = Some([status |-> "Error occurred", error |-> e]),
                            ![t].saw_file = Some(jobs[t].file_path \in fs),
                            ![t].result = Some([raised |-> e])]
    /\ UNCHANGED <<store, fs, h, cleanup, resp, ret, now, nreq, ncalls, nextUuid, session>>

\* worker_prefetch_multiplier=1
PrefetchMultiplier == 1

\* jobs a worker has received from the broker and not yet started; their
\* messages are unacknowledged
Received == {t \in DOMAIN jobs : jobs[t].state = "RECEIVED"}

\* The consumer of a worker process takes a message from the broker ahead
\* of its execution.  The prefetch limit counts unacknowledged messages,
\* and with the default early acknowledgement (task_acks_late is not set)
\* the message of a job is acknowledged when the job starts: a process that
\* is running one job may receive PrefetchMultiplier more.
WorkerReceive(t) ==
    /\ t \in DOMAIN jobs
    /\ jobs[t].state = "PENDING"
    /\ Cardinality(Received) < PrefetchMultiplier * NumWorkers
    /\ jobs' = [jobs EXCEPT ![t].state = "RECEIVED"]
    /\ UNCHANGED <<store, fs, h, cleanup, resp, ret, now, nreq, ncalls, nextUuid, session>>

\* a received job starts when a pool process is free: the message is
\* acknowledged, lines 45-67 run
WorkerStartReceived(t) ==
    /\ t \in DOMAIN jobs
    /\ jobs[t].state = "RECEIVED"
    /\ Cardinality(InProgress) < NumWorkers
    /\ jobs' = [jobs EXCEPT ![t].state = "PROGRESS",
                            ![t].attempts = @ + 1,
                            ![t].meta = Some([status |-> "Running financial analysis..."])]
    /\ UNCHANGED <<store, fs, h, cleanup, resp, ret, now, nreq, ncalls, nextUuid, session>>

\* task_time_limit=300: the pool process running the job is killed, the
\* except block does not run, the worker records the job as failed with
\* TimeLimitExceeded; no retry is configured and the message was
\* acknowledged when the job was taken, so it is not delivered again
WorkerTimeLimit(t) ==
    /\ t \in DOMAIN jobs
    /\ jobs[t].state = "PROGRESS"
    /\ jobs' = [jobs EXCEPT ![t].state = "FAILURE",
                            ![t].result = Some([raised |-> "TimeLimitExceeded"])]
    /\ UNCHANGED <<store, fs, h, cleanup, resp, ret, now, nreq, ncalls, nextUuid, session>>

\* cleanup_file_task without its except clause: a fault of os.remove escapes
CleanupFileTaskNoExcept(files, file_path, remove_fails) ==
    IF file_path \in files
    THEN IF remove_fails
         THEN [ fs |-> files,
                out |-> Raised("cleanup_file_task", <<file_path>>, "OSError") ]
         ELSE [ fs |-> files \ {file_path},
                out |-> Returned("cleanup_file_task", <<file_path>>,
                                 Some([status |-> "SUCCESS"])) ]
    ELSE [ fs |-> files,
           out |-> Returned("cleanup_file_task", <<file_path>>,
                            Some([status |-> "WARNING"])) ]

\* cleanup_file_task(file_path) run on the files on disk: the files left
\* and the outcome of the call.  remove_fails: os.remove raises (the file
\* is held open by a reader, the directory is not writable, ...)
CleanupFileTask(files, file_path, remove_fails) ==
    IF file_path \in files
    THEN IF remove_fails
         THEN [ fs |-> files,
                out |-> Returned("cleanup_file_task", <<file_path>>,
                                 Some([status |-> "ERROR"])) ]
         ELSE [ fs |-> files \ {file_path},
                out |-> Returned("cleanup_file_task", <<file_path>>,
                                 Some([status |-> "SUCCESS"])) ]
    ELSE [ fs |-> files,
           out |-> Returned("cleanup_file_task", <<file_path>>,
                            Some([status |-> "WARNING"])) ]

\* cleanup_file_task(file_path), run as a background task of the response
Cleanup(p, remove_fails) ==
    /\ p \in DOMAIN cleanup
    /\ cleanup[p] = "scheduled"
    /\ LET r == CleanupFileTask(fs, p, remove_fails)
       IN  /\ fs' = r.fs
           /\ cleanup' = [cleanup EXCEPT ![p] = r.out.value[1].status]
    /\ UNCHANGED <<store, jobs, h, resp, ret, now, nreq, ncalls, nextUuid, session>>

\* every uuid4() a run can draw: at most three per request (file id,
\* celery task id or record id)
Uuids == 1 .. (3 * MaxReq)

\* identifiers a client may ask about: every task id issued so far and
\* 0, which is never issued (all ids never issued behave alike)
ClientIds ==
    {0} \cup DOMAIN jobs \cup {store[i].task_id : i \in 1 .. Len(store)}

\* The gateway and the worker never compare two timestamps, so the clock
\* stands still here; StoreNext lets it advance.  The API process removes
\* files it wrote itself into a directory it created, so os.remove is taken
\* to succeed here; CleanupNext lets it fail.  The hard time limit of a
\* job is part of QueueNext.
Next ==
    \/ \E f \in Filenames, q \in Queries, u \in BOOLEAN : Receive(f, q, u)
    \/ Delay
    \/ \E e \in Faults : DelayRaises(e)
    \/ CreatePending
    \/ RespondQueued
    \/ \E a \in Analyses : RunCrew(a)
    \/ \E e \in Faults : RunCrewRaises(e)
    \/ CreateCompleted
    \/ UpdateCompleted
    \/ RespondSync
    \/ HandleException
    \/ \E t \in ClientIds : GetTaskStatus(t)
    \/ \E t \in ClientIds : GetTaskResult(t)
    \/ \E t \in ClientIds : DeleteTask(t)
    \/ \E pg \in Pages : GetResults(pg[1], pg[2])
    \/ \E t \in Uuids : WorkerStart(t)
    \/ \E t \in Uuids, a \in Analyses : WorkerSucceeds(t, a)
    \/ \E t \in Uuids, e \in Faults : WorkerFails(t, e)
    \/ \E f \in Uuids : Cleanup(FilePath(f), FALSE)

Spec == Init /\ [][Next]_vars

\* the steps the API process, the worker and the cleanup thread take on
\* their own, once a request has been received
HandlerStep ==
    \/ Delay
    \/ \E e \in Faults : DelayRaises(e)
    \/ CreatePending
    \/ RespondQueued
    \/ \E a \in Analyses : RunCrew(a)
    \/ \E e \in Faults : RunCrewRaises(e)
    \/ CreateCompleted
    \/ UpdateCompleted
    \/ RespondSync
    \/ HandleException

WorkerStep ==
    \/ \E t \in Uuids : WorkerStart(t)
    \/ \E t \in Uuids, a \in Analyses : WorkerSucceeds(t, a)
    \/ \E t \in Uuids, e \in Faults : WorkerFails(t, e)

CleanupStep == \E f \in Uuids : Cleanup(FilePath(f), FALSE)

\* a started handler runs to its response, a worker with a job finishes it,
\* a scheduled background task runs; clients are free to send nothing
FairSpec ==
    /\ Init
    /\ [][Next]_vars
    /\ WF_vars(HandlerStep)
    /\ WF_vars(WorkerStep)
    /\ WF_vars(CleanupStep)

Row(t) == store[Find(store, t)]

(***************************************************************************)
(* cleanup_file_task called directly, any number of times, on the paths    *)
(* of uploads                                                              *)
(***************************************************************************)
\* main.py:82-92 alone: an upload is written to data/ under a fresh id
WriteUpload ==
    /\ nreq < MaxReq
    /\ nreq' = nreq + 1
    /\ fs' = fs \cup {FilePath(nextUuid)}
    /\ nextUuid' = nextUuid + 1
    /\ UNCHANGED <<store, jobs, h, cleanup, resp, ret, now, ncalls, session>>

CallCleanup(p, remove_fails) ==
    /\ ncalls < MaxCalls
    /\ ncalls' = ncalls + 1
    /\ LET r == CleanupFileTask(fs, p, remove_fails)
       IN  /\ fs' = r.fs
           /\ ret' = r.out
    /\ UNCHANGED <<store, jobs, h, cleanup, resp, now, nreq, nextUuid, session>>

CleanupNext ==
    \/ WriteUpload
    \/ \E f \in Uuids, remove_fails \in BOOLEAN : CallCleanup(FilePath(f), remove_fails)

CleanupSpec == Init /\ [][CleanupNext]_vars

(***************************************************************************)
(* GET /task/{task_id}/result on records of every status: the records are  *)
(* written through DatabaseManager, as a worker or an operator that        *)
(* reports progress and failures would write them                          *)
(***************************************************************************)
ResultNext ==
    \/ \E t \in DirectIds, st \in Statuses : DbCreate(t, st)
    \/ \E t \in DirectIds, a \in {None, Some("A")},
          st \in {None} \cup {Some(x) : x \in Statuses},
          e \in {None, Some("E")}, kw \in KwargsSet :
            DbUpdate(t, a, st, e, kw)
    \/ \E t \in DirectIds : GetTaskResult(t)

ResultSpec == Init /\ [][ResultNext]_vars

(***************************************************************************)
(* The queue on its own: queued submissions and the worker pool, with the  *)
(* hard time limit of celery_app.conf                                      *)
(***************************************************************************)
QueueNext ==
    \/ \E f \in Filenames, q \in Queries : Receive(f, q, TRUE)
    \/ Delay
    \/ \E e \in Faults : DelayRaises(e)
    \/ CreatePending
    \/ RespondQueued
    \/ HandleException
    \/ \E t \in Uuids : WorkerStart(t)
    \/ \E t \in Uuids : WorkerReceive(t)
    \/ \E t \in Uuids : WorkerStartReceived(t)
    \/ \E t \in Uuids, a \in Analyses : WorkerSucceeds(t, a)
    \/ \E t \in Uuids, e \in Faults : WorkerFails(t, e)
    \/ \E t \in Uuids : WorkerTimeLimit(t)
    \/ \E f \in Uuids : Cleanup(FilePath(f), FALSE)

QueueSpec == Init /\ [][QueueNext]_vars

(***************************************************************************)
(* C1: the record of a queued submission is created before its job is     *)
(* enqueued, so no worker runs a job whose task_id has no store record:    *)
(* while the handler that enqueued task t is still running, job t having   *)
(* been taken by a worker implies the record of t exists, status PENDING.  *)
(***************************************************************************)
C1_RecordBeforePickup ==
    \A t \in DOMAIN jobs :
        (h.pc # "idle" /\ h.task_id = Some(t) /\ jobs[t].state # "PENDING")
            => (Has(store, t) /\ Row(t).status = "PENDING")

(***************************************************************************)
(* C2: once the worker's job for a queued task has finished successfully,  *)
(* the store record of that task eventually has status COMPLETED (or has   *)
(* been deleted by a client).                                              *)
(***************************************************************************)
C2_SuccessReachesStore ==
    \A t \in Uuids :
        (t \in DOMAIN jobs /\ jobs[t].state = "SUCCESS" /\ Has(store, t))
            ~> (~Has(store, t) \/ Row(t).status = "COMPLETED")

(***************************************************************************)
(* C3: when the queued job of a submission has raised and the record of    *)
(* the submission exists, the record has status FAILED and error_message   *)
(* equal to the captured exception text.                                   *)
(***************************************************************************)
C3_FaultMarksRecordFailed ==
    \A t \in DOMAIN jobs :
        (jobs[t].state = "FAILURE" /\ Has(store, t))
            => /\ Row(t).status = "FAILED"
               /\ Row(t).error_message = Some(jobs[t].result[1].raised)

(***************************************************************************)
(* C4: a request to GET /task/{id}, GET /task/{id}/result or DELETE        *)
(* /task/{id} for an id without a record is answered 404 and leaves the    *)
(* store unchanged.                                                        *)
(***************************************************************************)
C4_UnknownIdIs404 ==
    [][\A t \in {0} \cup Uuids :
          (~Has(store, t) /\ (GetTaskStatus(t) \/ GetTaskResult(t) \/ DeleteTask(t)))
              => (resp'.code = 404 /\ store' = store)]_vars

(***************************************************************************)
(* C5: no create/update operation changes the status of a record that is   *)
(* COMPLETED or FAILED.                                                    *)
(***************************************************************************)
Terminal == {"COMPLETED", "FAILED"}

C5_TerminalStatusIsFinal ==
    [][\A i \in 1 .. Len(store) :
          store[i].status \in Terminal
              => (i <= Len(store') /\ store'[i].status = store[i].status)]_vars

(***************************************************************************)
(* C6: for every record, completed_at is non-null exactly when status is   *)
(* COMPLETED.                                                              *)
(***************************************************************************)
C6_CompletedAtIffCompleted ==
    \A i \in 1 .. Len(store) :
        (store[i].completed_at # None) <=> (store[i].status = "COMPLETED")

(***************************************************************************)
(* C7: no operation changes created_at of a record, and once completed_at  *)
(* has been written no operation overwrites it.                            *)
(***************************************************************************)
C7_TimestampsWrittenOnce ==
    [][\A i \in 1 .. Len(store) :
          /\ i <= Len(store')
          /\ store'[i].created_at = store[i].created_at
          /\ store[i].completed_at # None
                => store'[i].completed_at = store[i].completed_at]_vars

EndsInDotPdf(f) ==
    /\ Len(f) >= 4
    /\ f[Len(f) - 3] = "."
    /\ f[Len(f) - 2] \in {"p", "P"}
    /\ f[Len(f) - 1] \in {"d", "D"}
    /\ f[Len(f)] \in {"f", "F"}

C9_NonPdfRejected ==
    [][\A f \in Filenames, q \in Queries, u \in BOOLEAN :
          (Receive(f, q, u) /\ ~EndsInDotPdf(f))
              => /\ resp'.op = "analyze" /\ resp'.code = 400
                 /\ fs' = fs /\ jobs' = jobs /\ store' = store
                 /\ cleanup' = cleanup /\ h' = h]_vars

\* an upload rejected while the store and the data directory are not empty
C9_Witness ==
    /\ resp.op = "analyze" /\ resp.code = 400
    /\ fs # {} /\ store # << >>

(***************************************************************************)
(* C10: a cleanup of file_path is scheduled for every submission that      *)
(* wrote a file: every uploaded file on disk whose request has been        *)
(* answered has a cleanup scheduled (or already run).                      *)
(***************************************************************************)
C10_CleanupScheduledForEveryFile ==
    \A p \in fs :
        (h.pc = "idle" \/ h.file_path # p) => p \in DOMAIN cleanup

(***************************************************************************)
(* C11: the file of a queued submission still exists when the worker       *)
(* reads it: every job whose crew has read its file_path found the file    *)
(* on disk.                                                                *)
(***************************************************************************)
C11_FileExistsWhenWorkerReads ==
    \A t \in DOMAIN jobs :
        jobs[t].saw_file # None => jobs[t].saw_file = Some(TRUE)

(***************************************************************************)
(* C12: cleanup_file_task(file_path) never raises; called on a file that   *)
(* exists it removes the file and returns status SUCCESS; called on a file *)
(* that is absent it returns status WARNING and changes nothing; a file    *)
(* that has been removed never comes back, so it is removed at most once.  *)
(* As stated: SUCCESS is the only outcome for a file that exists.          *)
(***************************************************************************)
C12_CleanupSuccessOrWarning ==
    [][\A f \in Uuids, remove_fails \in BOOLEAN :
          CallCleanup(FilePath(f), remove_fails)
              => /\ ret'.raised = None
                 /\ IF FilePath(f) \in fs
                    THEN /\ ret'.value = Some([status |-> "SUCCESS"])
                         /\ fs' = fs \ {FilePath(f)}
                    ELSE /\ ret'.value = Some([status |-> "WARNING"])
                         /\ fs' = fs]_vars

(***************************************************************************)
(* C12, amended: as above, except that a call on a file that exists may    *)
(* also return status ERROR, when os.remove fails, and then leaves the     *)
(* file in place.                                                          *)
(***************************************************************************)
C12_CleanupNeverRaises ==
    [][/\ \A f \in Uuids, remove_fails \in BOOLEAN :
            CallCleanup(FilePath(f), remove_fails)
                => /\ ret'.raised = None
                   /\ IF FilePath(f) \in fs
                      THEN \/ /\ ret'.value = Some([status |-> "SUCCESS"])
                              /\ fs' = fs \ {FilePath(f)}
                           \/ /\ ret'.value = Some([status |-> "ERROR"])
                              /\ fs' = fs
                      ELSE /\ ret'.value = Some([status |-> "WARNING"])
                           /\ fs' = fs
       /\ \A f \in Uuids :
            (f < nextUuid /\ FilePath(f) \notin fs) => FilePath(f) \notin fs']_vars

\* the third call on an upload: removed by an earlier call, a warning now
C12_Witness ==
    /\ ret.op = "cleanup_file_task"
    /\ ret.value = Some([status |-> "WARNING"])
    /\ \E f \in Uuids : f < nextUuid /\ ret.args = <<FilePath(f)>>
    /\ ncalls >= 3

(***************************************************************************)
(* C13: create_analysis_result with a task_id that already has a record    *)
(* raises, the table is unchanged by the failed call, and the next         *)
(* operation on the same manager (a get, a list, an update) does not       *)
(* raise.                                                                  *)
(***************************************************************************)
C13_DuplicateCreateIsHarmless ==
    [][/\ \A t \in DirectIds, st \in Statuses :
            (DbCreate(t, st) /\ Has(store, t))
                => (ret'.raised # None /\ store' = store)
       /\ ( /\ ret.op = "create"
            /\ ret.raised = Some("IntegrityError")
            /\ \/ \E t \in DirectIds : DbGet(t)
               \/ \E pg \in Pages : DbList(pg[1], pg[2])
               \/ \E t \in DirectIds, a \in {None, Some("A")},
                     st \in {None} \cup {Some(x) : x \in Statuses},
                     e \in {None, Some("E")}, kw \in KwargsSet :
                       DbUpdate(t, a, st, e, kw) )
                => ret'.raised = None]_vars

(***************************************************************************)
(* C14: update_analysis_result is a partial update: for an unknown task_id *)
(* it returns None without raising and changes no record; for a known      *)
(* task_id it changes only the fields passed with a non-None value (plus   *)
(* completed_at when status is COMPLETED) and leaves every other field of  *)
(* that record and every other record unchanged.                           *)
(***************************************************************************)
PassedNonNone(analysis_result, status, error_message, kw) ==
    (IF analysis_result # None THEN {"analysis_result"} ELSE {})
        \cup (IF status # None THEN {"status"} ELSE {})
        \cup (IF error_message # None THEN {"error_message"} ELSE {})
        \cup (IF status = Some("COMPLETED") THEN {"completed_at"} ELSE {})
        \cup {k \in DOMAIN kw : kw[k] # None}

C14_UpdateIsPartial ==
    [][\A t \in DirectIds, a \in {None, Some("A")},
          st \in {None} \cup {Some(x) : x \in Statuses},
          e \in {None, Some("E")}, kw \in KwargsSet :
            DbUpdate(t, a, st, e, kw)
                => IF ~Has(store, t)
                   THEN ret'.raised = None /\ ret'.value = None /\ store' = store
                   ELSE /\ Len(store') = Len(store)
                        /\ \A i \in 1 .. Len(store) :
                              IF i = Find(store, t)
                              THEN \A f \in DOMAIN store[i] :
                                      f \notin PassedNonNone(a, st, e, kw)
                                          => store'[i][f] = store[i][f]
                              ELSE store'[i] = store[i]]_vars

C17_SyncSuccessIsRecorded ==
    [][RespondSync
          => LET t == resp'.body.task_id
                 T == h.response[1]
             IN  /\ resp'.op = "analyze" /\ resp'.code = 200
                 /\ resp'.body.status = "success"
                 /\ resp'.body.analysis = T
                 /\ Cardinality({i \in 1 .. Len(store') : store'[i].task_id = t}) = 1
                 /\ store'[Find(store', t)].status = "COMPLETED"
                 /\ store'[Find(store', t)].analysis_result = Some(T)
                 /\ \A j \in DOMAIN jobs' :
                       j # t /\ jobs'[j].file_path # h.file_path]_vars

\* a synchronous submission answered while a queued one has its job
C17_Witness ==
    /\ resp.op = "analyze" /\ resp.code = 200
    /\ resp.body.status = "success"
    /\ Has(store, resp.body.task_id)
    /\ Row(resp.body.task_id).analysis_result = Some(resp.body.analysis)
    /\ DOMAIN jobs # {}

(***************************************************************************)
(* C18: GET /task/{task_id}/result for an existing record answers 200; it  *)
(* returns the result payload (status 'success', task_id, analysis, the    *)
(* six financial metrics, completed_at) if and only if the record's status *)
(* is COMPLETED; for PENDING, IN_PROGRESS and FAILED it returns the        *)
(* record's status, a message and its error_message, and no analysis.      *)
(***************************************************************************)
C18_ResultPayloadIffCompleted ==
    [][\A t \in DirectIds :
          (GetTaskResult(t) /\ Has(store, t))
              => LET r == Row(t)
                     body == resp'.body
                 IN  /\ resp'.op = "get_task_result" /\ resp'.code = 200
                     /\ IF r.status = "COMPLETED"
                        THEN /\ DOMAIN body = {"status", "task_id", "analysis",
                                               "financial_metrics", "completed_at"}
                             /\ body.status = "success"
                             /\ body.task_id = t
                             /\ body.analysis = r.analysis_result
                             /\ body.financial_metrics =
                                   [ revenue |-> r.revenue,
                                     profit_margin |-> r.profit_margin,
                                     debt_ratio |-> r.debt_ratio,
                                     pe_ratio |-> r.pe_ratio,
                                     investment_recommendation |->
                                         r.investment_recommendation,
                                     risk_level |-> r.risk_level ]
                             /\ body.completed_at = OptIso(r.completed_at)
                        ELSE /\ DOMAIN body = {"status", "message", "error"}
                             /\ body.status = r.status
                             /\ body.error = r.error_message]_vars

\* the result of a FAILED record asked for: its status and its error text
C18_Witness ==
    /\ resp.op = "get_task_result" /\ resp.code = 200
    /\ resp.body.status = "FAILED"
    /\ resp.body.error = Some("E")

(***************************************************************************)
(* C19: DELETE /task/{task_id} for an existing record is answered 200 and  *)
(* removes exactly that record: afterwards get_analysis_result(task_id) is *)
(* None, every other record is unchanged and in place, and the uploaded    *)
(* files, the queue and the scheduled cleanups are untouched.              *)
(***************************************************************************)
C19_DeleteRemovesExactlyThatRecord ==
    [][\A t \in {u \in Uuids : Has(store, u) /\ resp'.op = "delete_task"} :
          DeleteTask(t)
              => /\ resp'.op = "delete_task" /\ resp'.code = 200
                 /\ GetAnalysisResult(store', t) = None
                 /\ Len(store') = Len(store) - 1
                 /\ \A i \in 1 .. Len(store') :
                       store'[i] = IF i < Find(store, t) THEN store[i] ELSE store[i + 1]
                 /\ fs' = fs
                 /\ jobs' = jobs
                 /\ cleanup' = cleanup]_vars

\* the record of a queued task deleted while its file is on disk and its
\* job is in the queue; the record of another submission remains
C19_Witness ==
    /\ h.pc = "idle"
    /\ resp.op = "delete_task" /\ resp.code = 200
    /\ resp.about[1] \in DOMAIN jobs
    /\ jobs[resp.about[1]].file_path \in fs
    /\ ~Has(store, resp.about[1])
    /\ Len(store) >= 1

(***************************************************************************)
(* C20: no create or update operation, whatever keyword arguments it       *)
(* passes as financial metrics, alters task_id, query, file_name,          *)
(* file_path or created_at of an existing record, and no two records ever  *)
(* share a task_id.                                                        *)
(***************************************************************************)
C20_IdentityFieldsImmutable ==
    [][/\ \A i \in 1 .. Len(store) :
            /\ i <= Len(store')
            /\ store'[i].task_id = store[i].task_id
            /\ store'[i].query = store[i].query
            /\ store'[i].file_name = store[i].file_name
            /\ store'[i].file_path = store[i].file_path
            /\ store'[i].created_at = store[i].created_at
       /\ \A i, j \in 1 .. Len(store') :
            i # j => store'[i].task_id # store'[j].task_id]_vars

(***************************************************************************)
(* C21: in the worker job, an exception raised during analysis sets the    *)
(* job's queue state to FAILURE with the error text and is re-raised to    *)
(* the queue; on success the job, which was in the PROGRESS phase, returns *)
(* status 'SUCCESS' with the analysis, the query and the file_path it was  *)
(* given; no step of the job writes to the Result Store.                   *)
(***************************************************************************)
C21_JobReportsToQueueOnly ==
    [][\A t \in Uuids :
          /\ \A e \in Faults :
                WorkerFails(t, e)
                    => /\ jobs'[t].state = "FAILURE"
                       /\ jobs'[t].meta = Some([status |-> "Error occurred", error |-> e])
                       /\ jobs'[t].result = Some([raised |-> e])
                       /\ store' = store
          /\ \A a \in Analyses :
                WorkerSucceeds(t, a)
                    => /\ jobs[t].state = "PROGRESS"
                       /\ jobs'[t].state = "SUCCESS"
                       /\ jobs'[t].result[1].status = "SUCCESS"
                       /\ jobs'[t].result[1].analysis = a
                       /\ jobs'[t].result[1].query = jobs[t].query
                       /\ jobs'[t].result[1].file_path = jobs[t].file_path
                       /\ store' = store
          /\ (WorkerStart(t) \/ WorkerReceive(t) \/ WorkerStartReceived(t)
                \/ WorkerTimeLimit(t)) => store' = store]_vars

\* a job that raised, while the record of its task sits in the store
C21_Witness ==
    \E t \in DOMAIN jobs :
        /\ jobs[t].state = "FAILURE"
        /\ jobs[t].result = Some([raised |-> "analysis fault"])
        /\ Has(store, t)
        /\ Row(t).status = "PENDING"

(***************************************************************************)
(* C22: each submission answered 'queued' has exactly one analysis job and *)
(* no submission has more than one; the workers hold (have received or are *)
(* running) at most one job each at any time, and run at most one each;    *)
(* every job is attempted at most once: a job that failed or was killed at *)
(* the hard time limit is not started again.                               *)
(***************************************************************************)
C22_OneJobOneWorkerOneAttempt ==
    /\ \A t1, t2 \in DOMAIN jobs :
          jobs[t1].file_path = jobs[t2].file_path => t1 = t2
    /\ (resp.op = "analyze" /\ resp.code = 200)
          => /\ resp.body.task_id \in DOMAIN jobs
             /\ jobs[resp.body.task_id].file_path = FilePath(resp.body.file_id)
    /\ Cardinality(Received \cup InProgress) <= NumWorkers
    /\ Cardinality(InProgress) <= NumWorkers
    /\ \A t \in DOMAIN jobs :
          /\ jobs[t].attempts <= 1
          /\ jobs[t].state \in {"PROGRESS", "SUCCESS", "FAILURE"} => jobs[t].attempts = 1

====
